---- MODULE Spec2Model ----
(***************************************************************************)
(* CartResource of the JS Buy SDK: fetch, create, addLineItems,            *)
(* removeLineItems, updateLineItems and updateAttributes, each a promise   *)
(* chain over the GraphQL client's send and fetchAllPages.  Several calls  *)
(* may be in flight at once; the GraphQL server and the transport are the  *)
(* environment.                                                            *)
(***************************************************************************)
EXTENDS Integers, Sequences, FiniteSets

VARIABLES calls, sends, pageCalls

vars == <<calls, sends, pageCalls>>

(* ------------------------------ bounds -------------------------------- *)

\* number of calls made on the resource in one behaviour
MaxCalls == 2
\* number of line items the server holds for the larger cart
MaxItems == 2

(* --------------------------- value domains ---------------------------- *)

\* JavaScript's undefined, once per type of argument
UndefinedObj == {<<"undefined", "undefined">>}
UndefinedList == <<"undefined">>
\* the object literal {}
EmptyObject == {}
\* the attribute lineItems before fetch assigns it
Absent == <<"absent">>

\* ids of carts that exist on the server, and one id that does not
ExistingIds == {"c1", "c2"}
FetchIds == ExistingIds \cup {"c0"}
\* cart inputs handed to create: omitted, or with a note
Inputs == {UndefinedObj, {<<"note", "hello">>}}
\* line item / line id lists handed to the line item mutations
Lists == {<<"y", "x">>}
\* attribute lists handed to updateAttributes: omitted, or a given list
AttributeLists == {UndefinedList, <<"k=v">>}

NoArgs == [id |-> "-", input |-> UndefinedObj, list |-> UndefinedList]

(* ------------------------------ server -------------------------------- *)

NumLines(id) == IF id = "c1" THEN MaxItems ELSE 1

\* the line items of a cart in the order the server reports them
ServerLines(id) == [i \in 1..NumLines(id) |-> <<id, i>>]

Min(a, b) == IF a < b THEN a ELSE b

Connection(id, n) ==
  [owner |-> id, items |-> SubSeq(ServerLines(id), 1, n),
   hasNextPage |-> n < NumLines(id)]

NoConnection == [owner |-> "-", items |-> <<>>, hasNextPage |-> FALSE]

\* the cart model of a response whose lines connection holds the first n items
Cart(id, n) ==
  [id |-> id,
   attrs |-> [note |-> <<"note of", id>>, lines |-> Connection(id, n),
              lineItems |-> Absent]]

NullCart ==
  [id |-> "null",
   attrs |-> [note |-> <<"-", "-">>, lines |-> NoConnection, lineItems |-> Absent]]

NoResponse == [field |-> "-", cart |-> NullCart, errs |-> "none"]

\* the root field under which the server answers a document
FieldOf(document) ==
  CASE document = "cartNodeQuery" -> "cart"
    [] document = "cartCreateMutation" -> "cartCreate"
    [] document = "cartLinesAddMutation" -> "cartLinesAdd"
    [] document = "cartLinesRemoveMutation" -> "cartLinesRemove"
    [] document = "cartLinesUpdateMutation" -> "cartLinesUpdate"
    [] document = "cartAttributesUpdateMutation" -> "cartAttributesUpdate"

\* the responses the server may give to a request
Responses(request) ==
  IF request.document = "cartNodeQuery"
  THEN IF request.variables.id \in ExistingIds
       THEN {[field |-> "cart", cart |-> Cart(request.variables.id, n), errs |-> "none"] :
                n \in 0..NumLines(request.variables.id)}
       ELSE {[field |-> "cart", cart |-> NullCart, errs |-> "none"]}
  ELSE LET id == IF "cartId" \in DOMAIN request.variables
                 THEN request.variables.cartId ELSE "c2"
       IN  {[field |-> FieldOf(request.document), cart |-> Cart(id, NumLines(id)),
             errs |-> e] : e \in {"none", "userErrors"}}
           \cup {[field |-> FieldOf(request.document), cart |-> NullCart, errs |-> e] :
                    e \in {"userErrors", "errors"}}

(* --------------------------- CartResource ----------------------------- *)

Operations ==
  {"fetch", "create", "addLineItems", "removeLineItems", "updateLineItems",
   "updateAttributes"}

Mutations == Operations \ {"fetch"}

\* the names bound at module level by the import declarations
ModuleBindings ==
  {"Resource", "defaultResolver", "handleCartMutation", "cartCreateMutation",
   "cartLinesAddMutation", "cartLinesRemoveMutation", "cartLinesUpdateMutation",
   "cartAttributesUpdateMutation", "cartNodeQuery"}

\* a default parameter value replaces an undefined argument
Default(value, undefined, default) == IF value = undefined THEN default ELSE value

\* the parameters of each method bound to the arguments of a call
Bind(op, a) ==
  CASE op = "fetch" -> [id |-> a.id]
    [] op = "create" -> [input |-> Default(a.input, UndefinedObj, EmptyObject)]
    [] op = "addLineItems" -> [cartId |-> a.id, lineItems |-> a.list]
    [] op = "removeLineItems" -> [cartId |-> a.id, lineIds |-> a.list]
    [] op = "updateLineItems" -> [cartId |-> a.id, lineItems |-> a.list]
    [] op = "updateAttributes" ->
         [cartId |-> a.id, attributes |-> Default(a.list, UndefinedList, <<>>)]

\* the identifiers each method reads to build the variables of its request
Referenced(op) ==
  CASE op = "fetch" -> {"id"}
    [] op = "create" -> {"input"}
    [] op = "addLineItems" -> {"cartId", "lineItems"}
    [] op = "removeLineItems" -> {"cartId", "lineIds"}
    [] op = "updateLineItems" -> {"cartId", "lineItems"}
    [] op = "updateAttributes" -> {"cartId", "input"}

\* the document each method sends
Document(op) ==
  CASE op = "fetch" -> "cartNodeQuery"
    [] op = "create" -> "cartCreateMutation"
    [] op = "addLineItems" -> "cartLinesAddMutation"
    [] op = "removeLineItems" -> "cartLinesRemoveMutation"
    [] op = "updateLineItems" -> "cartLinesUpdateMutation"
    [] op = "updateAttributes" -> "cartAttributesUpdateMutation"

\* Variables with removeLineItems passing its ids under the key of the other
\* line item mutations
VariablesLinesKey(op, env) ==
  CASE op = "fetch" -> [id |-> env.id]
    [] op = "create" -> [input |-> env.input]
    [] op = "addLineItems" -> [cartId |-> env.cartId, lines |-> env.lineItems]
    [] op = "removeLineItems" -> [cartId |-> env.cartId, lines |-> env.lineIds]
    [] op = "updateLineItems" -> [cartId |-> env.cartId, lines |-> env.lineItems]
    [] op = "updateAttributes" -> [cartId |-> env.cartId, input |-> env.input]

\* the variables object each method builds; env is the method's scope
Variables(op, env) ==
  CASE op = "fetch" -> [id |-> env.id]
    [] op = "create" -> [input |-> env.input]
    [] op = "addLineItems" -> [cartId |-> env.cartId, lines |-> env.lineItems]
    [] op = "removeLineItems" -> [cartId |-> env.cartId, lineIds |-> env.lineIds]
    [] op = "updateLineItems" -> [cartId |-> env.cartId, lines |-> env.lineItems]
    [] op = "updateAttributes" -> [cartId |-> env.cartId, input |-> env.input]

\* HandlerOf with create chaining the resolver of fetch
HandlerOfResolver(op) ==
  CASE op = "fetch" -> [kind |-> "defaultResolver", key |-> "cart"]
    [] op = "create" -> [kind |-> "defaultResolver", key |-> "cartCreate"]
    [] op = "addLineItems" -> [kind |-> "handleCartMutation", key |-> "cartLinesAdd"]
    [] op = "removeLineItems" ->
         [kind |-> "handleCartMutation", key |-> "cartLinesRemove"]
    [] op = "updateLineItems" ->
         [kind |-> "handleCartMutation", key |-> "cartLinesUpdate"]
    [] op = "updateAttributes" ->
         [kind |-> "handleCartMutation", key |-> "cartAttributesUpdate"]

\* the fulfilment handler each method chains on the promise of send
HandlerOf(op) ==
  CASE op = "fetch" -> [kind |-> "defaultResolver", key |-> "cart"]
    [] op = "create" -> [kind |-> "handleCartMutation", key |-> "cartCreate"]
    [] op = "addLineItems" -> [kind |-> "handleCartMutation", key |-> "cartLinesAdd"]
    [] op = "removeLineItems" ->
         [kind |-> "handleCartMutation", key |-> "cartLinesRemove"]
    [] op = "updateLineItems" ->
         [kind |-> "handleCartMutation", key |-> "cartLinesUpdate"]
    [] op = "updateAttributes" ->
         [kind |-> "handleCartMutation", key |-> "cartAttributesUpdate"]

NoHandler == [kind |-> "-", key |-> "-"]

\* the page size fetch hands to fetchAllPages
PageSize == 250

NewCall(op, a, pc, handler) ==
  [op |-> op, args |-> a, pc |-> pc, handler |-> handler, response |-> NoResponse,
   cart |-> NullCart, conn |-> NoConnection, result |-> NullCart, fault |-> "none"]

\* the synchronous part of a method: build the variables, send, chain the handler.
\* Reading an identifier that is bound nowhere throws a ReferenceError before
\* send is reached.
Invoke(op, a) ==
  /\ Len(calls) < MaxCalls
  /\ LET env == Bind(op, a)
     IN  IF Referenced(op) \subseteq (DOMAIN env) \cup ModuleBindings
         THEN /\ sends' = Append(sends, [call |-> Len(calls) + 1,
                                         document |-> Document(op),
                                         variables |-> Variables(op, env)])
              /\ calls' = Append(calls, NewCall(op, a, "awaitSend", HandlerOf(op)))
         ELSE /\ calls' = Append(calls, NewCall(op, a, "threw", NoHandler))
              /\ UNCHANGED sends
  /\ UNCHANGED pageCalls

Fetch(id) == Invoke("fetch", [NoArgs EXCEPT !.id = id])

Create(input) == Invoke("create", [NoArgs EXCEPT !.input = input])

AddLineItems(cartId, lineItems) ==
  Invoke("addLineItems", [NoArgs EXCEPT !.id = cartId, !.list = lineItems])

RemoveLineItems(cartId, lineIds) ==
  Invoke("removeLineItems", [NoArgs EXCEPT !.id = cartId, !.list = lineIds])

UpdateLineItems(cartId, lineItems) ==
  Invoke("updateLineItems", [NoArgs EXCEPT !.id = cartId, !.list = lineItems])

UpdateAttributes(cartId, attributes) ==
  Invoke("updateAttributes", [NoArgs EXCEPT !.id = cartId, !.list = attributes])

(* ------------------------- response handling -------------------------- *)

\* defaultResolver(key): the model found under key, null when there is none
DefaultResolver(key, response) ==
  IF response.field = key THEN response.cart ELSE NullCart

\* handleCartMutation(key): reject on top-level or user errors, otherwise
\* resolve with the cart found under key
HandleCartMutation(call, response) ==
  IF response.errs # "none"
  THEN [call EXCEPT !.pc = "rejected"]
  ELSE [call EXCEPT !.pc = "resolved",
                    !.result = DefaultResolver(call.handler.key, response)]

\* IsFalsy with the null check left out
IsFalsyNever(cart) == FALSE

\* if (!cart)
IsFalsy(cart) == cart = NullCart

\* ClosureCart with the cart kept on the resource, where the newest fetch
\* overwrites it
ClosureCartShared(cs, c) ==
  LET holders == {d \in 1..Len(cs) : cs[d].op = "fetch" /\ cs[d].cart # NullCart}
  IN  cs[CHOOSE d \in holders : \A e \in holders : e <= d].cart

\* the cart the continuation of fetchAllPages closes over
ClosureCart(cs, c) == cs[c].cart

\* Attach with the first page of the connection in place of lineItems
AttachFirstPage(cart, lineItems) ==
  [cart EXCEPT !.attrs.lineItems = cart.attrs.lines.items]

\* Attach with attrs replaced by an object that holds lineItems alone
AttachFreshAttrs(cart, lineItems) ==
  [cart EXCEPT !.attrs = [NullCart.attrs EXCEPT !.lineItems = lineItems]]

\* cart.attrs.lineItems = lineItems; return cart
Attach(cart, lineItems) == [cart EXCEPT !.attrs.lineItems = lineItems]

\* (lineItems) => {...}: the continuation of fetchAllPages in fetch
LineItemsThen(cs, c, lineItems) ==
  [cs[c] EXCEPT !.pc = "resolved", !.result = Attach(ClosureCart(cs, c), lineItems)]

\* PagesRejected with a rejection handler that falls back to the cart
PagesRejectedCaught(call) ==
  [call EXCEPT !.pc = "resolved", !.result = call.cart, !.fault = "pages"]

\* a rejection meets no rejection handler anywhere in the chain of fetch
PagesRejected(call) == [call EXCEPT !.pc = "rejected", !.fault = "pages"]

\* fetchAllPages(connection, {pageSize}): ask for the next page while the
\* connection reports one, then resolve with the items of all pages
FetchAllPages(cs, c, connection) ==
  IF connection.hasNextPage
  THEN [cs[c] EXCEPT !.pc = "awaitPage", !.conn = connection]
  ELSE LineItemsThen([cs EXCEPT ![c].conn = connection], c, connection.items)

\* (cart) => {...}: the continuation of defaultResolver in fetch
CartThen(cs, c, cart) ==
  IF IsFalsy(cart)
  THEN [cs[c] EXCEPT !.pc = "resolved", !.result = NullCart]
  ELSE FetchAllPages([cs EXCEPT ![c].cart = cart], c, cart.attrs.lines)

\* the promise of send is fulfilled with the server's response to request k
SendFulfilled(k, response) ==
  LET c == sends[k].call
      cs == [calls EXCEPT ![c].response = response]
  IN  /\ calls[c].pc = "awaitSend"
      /\ response \in Responses(sends[k])
      /\ IF calls[c].handler.kind = "defaultResolver"
         THEN LET cart == DefaultResolver(calls[c].handler.key, response)
              IN  /\ calls' = [calls EXCEPT ![c] = CartThen(cs, c, cart)]
                  /\ pageCalls' =
                       IF IsFalsy(cart) THEN pageCalls
                       ELSE Append(pageCalls, [call |-> c,
                                               connection |-> cart.attrs.lines,
                                               pageSize |-> PageSize])
         ELSE /\ calls' = [calls EXCEPT ![c] = HandleCartMutation(cs[c], response)]
              /\ UNCHANGED pageCalls
      /\ UNCHANGED sends

\* the promise of send is rejected: no handler of the chain runs
SendRejected(k) ==
  LET c == sends[k].call
  IN  /\ calls[c].pc = "awaitSend"
      /\ calls' = [calls EXCEPT ![c].pc = "rejected", ![c].fault = "send"]
      /\ UNCHANGED <<sends, pageCalls>>

\* the server answers the request for the next page of call pageCalls[p] with
\* n more items
PageFulfilled(p, n) ==
  LET c == pageCalls[p].call
      conn == calls[c].conn
      have == Len(conn.items)
      left == NumLines(conn.owner) - have
      next == [owner |-> conn.owner,
               items |-> conn.items \o SubSeq(ServerLines(conn.owner), have + 1, have + n),
               hasNextPage |-> n < left]
  IN  /\ calls[c].pc = "awaitPage"
      /\ n \in 1..Min(pageCalls[p].pageSize, left)
      /\ calls' = [calls EXCEPT ![c] = FetchAllPages(calls, c, next)]
      /\ UNCHANGED <<sends, pageCalls>>

\* the request for the next page fails
PageRejected(p) ==
  LET c == pageCalls[p].call
  IN  /\ calls[c].pc = "awaitPage"
      /\ calls' = [calls EXCEPT ![c] = PagesRejected(calls[c])]
      /\ UNCHANGED <<sends, pageCalls>>

(* --------------------------- specification ---------------------------- *)

Init ==
  /\ calls = <<>>
  /\ sends = <<>>
  /\ pageCalls = <<>>

Next ==
  \/ \E id \in FetchIds : Fetch(id)
  \/ \E input \in Inputs : Create(input)
  \/ \E cartId \in ExistingIds, lineItems \in Lists : AddLineItems(cartId, lineItems)
  \/ \E cartId \in ExistingIds, lineIds \in Lists : RemoveLineItems(cartId, lineIds)
  \/ \E cartId \in ExistingIds, lineItems \in Lists : UpdateLineItems(cartId, lineItems)
  \/ \E cartId \in ExistingIds, attributes \in AttributeLists :
        UpdateAttributes(cartId, attributes)
  \/ \E k \in 1..Len(sends) : \E response \in Responses(sends[k]) :
        SendFulfilled(k, response)
  \/ \E k \in 1..Len(sends) : SendRejected(k)
  \/ \E p \in 1..Len(pageCalls) : \E n \in 1..MaxItems : PageFulfilled(p, n)
  \/ \E p \in 1..Len(pageCalls) : PageRejected(p)

Spec == Init /\ [][Next]_vars

TypeOK ==
  /\ Len(calls) <= MaxCalls
  /\ \A c \in 1..Len(calls) :
        calls[c].pc \in {"awaitSend", "awaitPage", "resolved", "rejected", "threw"}

(* ------------------------------ claims -------------------------------- *)

Calls == 1..Len(calls)

\* the sends and the fetchAllPages calls a call of the resource has made
SendsOf(c) == {k \in 1..Len(sends) : sends[k].call = c}

PageCallsOf(c) == {p \in 1..Len(pageCalls) : pageCalls[p].call = c}

Answered(c) == calls[c].response # NoResponse

\* call c has sent exactly one request: this document with these variables
SentOnce(c, document, variables) ==
  /\ calls[c].pc # "threw"
  /\ Cardinality(SendsOf(c)) = 1
  /\ \A k \in SendsOf(c) :
        sends[k].document = document /\ sends[k].variables = variables

\* call c settles through the mutation handler for key: rejected on errors,
\* resolved with the cart of the response otherwise
ThroughMutationHandler(c, key) ==
  /\ calls[c].handler = [kind |-> "handleCartMutation", key |-> key]
  /\ Answered(c) /\ calls[c].response.errs = "none" =>
        /\ calls[c].pc = "resolved"
        /\ calls[c].response.field = key
        /\ calls[c].result = calls[c].response.cart

\* C1: every updateAttributes(cartId, attributes) sends the
\* cartAttributesUpdate mutation exactly once, with that cartId and that
\* attributes list, never fails before the request is sent, and settles
\* through the cartAttributesUpdate mutation handler.
C1_UpdateAttributesSends ==
  \A c \in Calls :
    calls[c].op = "updateAttributes" =>
      /\ SentOnce(c, "cartAttributesUpdateMutation",
                  [cartId |-> calls[c].args.id,
                   attributes |-> IF calls[c].args.list = UndefinedList
                                  THEN <<>> ELSE calls[c].args.list])
      /\ ThroughMutationHandler(c, "cartAttributesUpdate")

\* C2: create, addLineItems, removeLineItems and updateLineItems each send
\* exactly once per call, their own document with exactly the documented
\* variables built from the unmodified arguments, and hand the response to the
\* mutation handler keyed by the matching field.
C2_MutationRequests ==
  \A c \in Calls :
    LET a == calls[c].args
    IN  /\ calls[c].op = "create" =>
             /\ SentOnce(c, "cartCreateMutation",
                         [input |-> IF a.input = UndefinedObj THEN {} ELSE a.input])
             /\ ThroughMutationHandler(c, "cartCreate")
        /\ calls[c].op = "addLineItems" =>
             /\ SentOnce(c, "cartLinesAddMutation", [cartId |-> a.id, lines |-> a.list])
             /\ ThroughMutationHandler(c, "cartLinesAdd")
        /\ calls[c].op = "removeLineItems" =>
             /\ SentOnce(c, "cartLinesRemoveMutation",
                         [cartId |-> a.id, lineIds |-> a.list])
             /\ ThroughMutationHandler(c, "cartLinesRemove")
        /\ calls[c].op = "updateLineItems" =>
             /\ SentOnce(c, "cartLinesUpdateMutation",
                         [cartId |-> a.id, lines |-> a.list])
             /\ ThroughMutationHandler(c, "cartLinesUpdate")

\* two of the four mutations are in flight or settled, one of them resolved
\* with the cart of its response
C2_Witness ==
  \E c, d \in Calls :
    /\ calls[c].op = "removeLineItems" /\ calls[c].pc = "resolved"
    /\ calls[c].result = Cart(calls[c].args.id, NumLines(calls[c].args.id))
    /\ calls[d].op = "create" /\ calls[d].args.input # UndefinedObj
    /\ SendsOf(d) # {}

\* C3: a mutation whose response carries user errors or top-level errors ends
\* rejected and never resolves with a cart; it resolves with the resulting
\* cart only when the response reports no errors.
C3_ErrorsReject ==
  \A c \in Calls :
    calls[c].op \in Mutations =>
      /\ Answered(c) /\ calls[c].response.errs # "none" =>
            calls[c].pc = "rejected" /\ calls[c].result = NullCart
      /\ calls[c].pc = "resolved" =>
            /\ Answered(c)
            /\ calls[c].response.errs = "none"
            /\ calls[c].result = calls[c].response.cart

\* a mutation was answered with user errors next to a cart and ended rejected
C3_Witness ==
  \E c \in Calls :
    /\ calls[c].op = "create"
    /\ calls[c].response.errs = "userErrors"
    /\ calls[c].response.cart # NullCart
    /\ calls[c].pc = "rejected"

\* C4: a fetch that finds a cart calls fetchAllPages on the cart's lines with
\* page size 250, keeps paging while the server reports a further page, and
\* resolves with lineItems equal to all items of the cart in the server's
\* order.
C4_FetchPaginates ==
  \A c \in Calls :
    calls[c].op = "fetch" =>
      /\ \A p \in PageCallsOf(c) :
            /\ pageCalls[p].pageSize = 250
            /\ pageCalls[p].connection = calls[c].response.cart.attrs.lines
      /\ calls[c].pc = "awaitPage" => calls[c].conn.hasNextPage
      /\ calls[c].pc = "resolved" /\ calls[c].result # NullCart =>
            /\ Cardinality(PageCallsOf(c)) = 1
            /\ ~calls[c].conn.hasNextPage
            /\ calls[c].result.attrs.lineItems = ServerLines(calls[c].args.id)

\* a fetch resolved with more line items than the first page held
C4_Witness ==
  \E c \in Calls :
    /\ calls[c].op = "fetch" /\ calls[c].pc = "resolved"
    /\ Len(calls[c].result.attrs.lineItems) = MaxItems
    /\ Len(calls[c].response.cart.attrs.lines.items) < MaxItems
    /\ calls[c].response.cart.attrs.lines.hasNextPage

\* C5: fetch delivers no partial cart: when send fails fetchAllPages is never
\* called and the promise is rejected; when fetchAllPages fails the promise is
\* rejected; a cart is delivered only with its complete lineItems.
C5_NoPartialCart ==
  \A c \in Calls :
    calls[c].op = "fetch" =>
      /\ calls[c].fault = "send" =>
            calls[c].pc = "rejected" /\ PageCallsOf(c) = {} /\ ~Answered(c)
      /\ calls[c].fault = "pages" =>
            calls[c].pc = "rejected" /\ calls[c].result = NullCart
      /\ calls[c].pc = "resolved" /\ calls[c].result # NullCart =>
            /\ calls[c].fault = "none"
            /\ calls[c].result.attrs.lineItems = ServerLines(calls[c].args.id)

\* fetchAllPages failed after the cart and part of its line items had arrived
C5_Witness ==
  \E c \in Calls :
    /\ calls[c].op = "fetch" /\ calls[c].fault = "pages"
    /\ calls[c].cart # NullCart
    /\ calls[c].pc = "rejected"

\* C6: every call issues a single send; fetchAllPages is called at most once
\* per fetch and only after the send resolved to a cart; no mutation calls
\* fetchAllPages or sends twice.
C6_SingleSend ==
  \A c \in Calls :
    /\ Cardinality(SendsOf(c)) = 1
    /\ calls[c].op \in Mutations => PageCallsOf(c) = {}
    /\ calls[c].op = "fetch" =>
          /\ Cardinality(PageCallsOf(c)) <= 1
          /\ PageCallsOf(c) # {} => Answered(c) /\ calls[c].cart # NullCart

\* C7: create() sends the cartCreate mutation with {input: {}} and
\* updateAttributes(cartId) sends the cartAttributesUpdate mutation with the
\* cartId and an empty attributes list; both settle through the mutation
\* handler.
C7_Defaults ==
  \A c \in Calls :
    /\ calls[c].op = "create" /\ calls[c].args.input = UndefinedObj =>
          /\ SentOnce(c, "cartCreateMutation", [input |-> {}])
          /\ ThroughMutationHandler(c, "cartCreate")
    /\ calls[c].op = "updateAttributes" /\ calls[c].args.list = UndefinedList =>
          /\ SentOnce(c, "cartAttributesUpdateMutation",
                      [cartId |-> calls[c].args.id, attributes |-> <<>>])
          /\ ThroughMutationHandler(c, "cartAttributesUpdate")

\* C8: the cart fetch resolves with is the cart found under the field cart of
\* the response with attrs.lineItems set to the result of fetchAllPages and
\* nothing else changed.
C8_FetchFrame ==
  \A c \in Calls :
    calls[c].op = "fetch" /\ calls[c].pc = "resolved" /\ calls[c].result # NullCart =>
      LET found == calls[c].response.cart
          given == calls[c].result
      IN  /\ calls[c].response.field = "cart"
          /\ DOMAIN given = DOMAIN found
          /\ given.id = found.id
          /\ DOMAIN given.attrs = DOMAIN found.attrs
          /\ \A f \in DOMAIN found.attrs \ {"lineItems"} :
                given.attrs[f] = found.attrs[f]
          /\ given.attrs.lineItems = calls[c].conn.items

\* a fetch resolved with a cart that carries the server's note and lines
C8_Witness ==
  \E c \in Calls :
    /\ calls[c].op = "fetch" /\ calls[c].pc = "resolved"
    /\ calls[c].result.attrs.note = <<"note of", "c1">>
    /\ calls[c].result.attrs.lines = Connection("c1", 1)
    /\ calls[c].result.attrs.lineItems # Absent

\* C9: a fetch whose response holds no cart resolves with null, is not
\* rejected and never calls fetchAllPages.
C9_NullCart ==
  \A c \in Calls :
    calls[c].op = "fetch" /\ Answered(c)
      /\ DefaultResolver("cart", calls[c].response) = NullCart =>
        /\ calls[c].pc = "resolved"
        /\ calls[c].result = NullCart
        /\ PageCallsOf(c) = {}

\* a fetch of an id the server does not know resolved with null
C9_Witness ==
  \E c \in Calls :
    /\ calls[c].op = "fetch" /\ calls[c].args.id = "c0"
    /\ Answered(c) /\ calls[c].response.cart = NullCart
    /\ calls[c].pc = "resolved"

\* C10: calls do not interfere: in every interleaving each call is answered
\* for its own request, a mutation resolves with the cart of its own response
\* and a fetch resolves with the cart of its own id carrying the line items
\* of that cart's connection.
C10_NoInterference ==
  \A c \in Calls :
    /\ Answered(c) =>
          /\ Cardinality(SendsOf(c)) = 1
          /\ \A k \in SendsOf(c) : calls[c].response \in Responses(sends[k])
    /\ calls[c].op \in Mutations /\ calls[c].pc = "resolved" =>
          calls[c].result = calls[c].response.cart
    /\ calls[c].op = "fetch" /\ calls[c].pc = "awaitPage" =>
          calls[c].conn.owner = calls[c].args.id
    /\ calls[c].op = "fetch" /\ calls[c].pc = "resolved" /\ Answered(c)
         /\ calls[c].response.cart # NullCart =>
          /\ calls[c].result.id = calls[c].args.id
          /\ calls[c].result.attrs.lines.owner = calls[c].args.id
          /\ calls[c].result.attrs.lineItems = ServerLines(calls[c].args.id)

\* two fetches of different carts overlapped: the later call received its cart
\* first, and the earlier one resolved while the later one was still paging
C10_Witness ==
  \E c, d \in Calls :
    /\ c < d
    /\ calls[c].op = "fetch" /\ calls[d].op = "fetch"
    /\ calls[c].args.id = "c1" /\ calls[d].args.id = "c2"
    /\ Len(pageCalls) = 2 /\ pageCalls[1].call = d
    /\ calls[c].pc = "resolved" /\ calls[c].result # NullCart
    /\ calls[d].pc = "awaitPage"

====
